---- MODULE Spec2Model ----
(***************************************************************************)
(* A state-machine model of pydagmc (src/src/pydagmc/dagnav.py): the Model *)
(* with its per-kind table of IDs in use, the Surface / Volume / Group     *)
(* wrappers, and the part of the MOAB mesh database they read and write    *)
(* (entity-sets, their GLOBAL_ID / CATEGORY / GEOM_DIMENSION / NAME tags   *)
(* and the contents of group sets).                                        *)
(*                                                                         *)
(* A name is a sequence of one-character strings, so that lower(), strip(),*)
(* the substring test "mat:" in name and the slice name[4:] are computed   *)
(* as Python computes them.                                                *)
(***************************************************************************)
EXTENDS Integers, Sequences, FiniteSets, TLC

VARIABLES
    mb,         \* the MOAB core: live entity-sets, their tags, set contents
    used_ids,   \* Model.used_ids: kind -> set of IDs recorded as in use
    held,       \* the wrapper object the caller keeps between calls
    last,       \* the last call made: operation, arguments, outcome
    lastAuto,   \* kind and value of the latest automatically assigned ID
    defaultId   \* what this MOAB build reports as GLOBAL_ID of a set never given one

vars == <<mb, used_ids, held, last, lastAuto, defaultId>>

-----------------------------------------------------------------------------
(* Bounds of the model *)

MaxHandle == 3
MaxSets == 2
MaxId == 2

Handles == 1..MaxHandle

(* IDs a caller passes explicitly; the setter accepts any integer *)
IdRange == (0 - 1)..MaxId

(* GLOBAL_ID default of the MOAB build: 0 in older builds, -1 in newer ones *)
DefaultIds == {0 - 1, 0}

-----------------------------------------------------------------------------
(* Kinds and their class-level constants *)

Kinds == {"Surface", "Volume", "Group"}

Category(cls) == cls

SurfaceDim == 2
VolumeDim == 3
GroupDim == 4

GeomDimension(cls) ==
    CASE cls = "Surface" -> SurfaceDim
      [] cls = "Volume" -> VolumeDim
      [] cls = "Group" -> GroupDim

UnsetDim == 0 - 1
NoCat == "<no category>"
NoHandle == 0

(* An optional argument: <<>> is Python's None, <<x>> is the value x *)
None == <<>>
Some(x) == <<x>>

-----------------------------------------------------------------------------
(* Names *)

NoName == <<"None">>

UpperChars == <<"A", "B", "C", "D", "E", "F", "G", "H", "I", "J", "K", "L", "M",
                "N", "O", "P", "Q", "R", "S", "T", "U", "V", "W", "X", "Y", "Z">>
LowerChars == <<"a", "b", "c", "d", "e", "f", "g", "h", "i", "j", "k", "l", "m",
                "n", "o", "p", "q", "r", "s", "t", "u", "v", "w", "x", "y", "z">>

LowerChar(c) ==
    IF \E i \in DOMAIN UpperChars : UpperChars[i] = c
    THEN LowerChars[CHOOSE i \in DOMAIN UpperChars : UpperChars[i] = c]
    ELSE c

(* str.lower() *)
Lower(n) == [i \in DOMAIN n |-> LowerChar(n[i])]

IsSpace(c) == c \in {" ", "\t", "\n"}

RECURSIVE LStrip(_)
LStrip(n) == IF n # <<>> /\ IsSpace(Head(n)) THEN LStrip(Tail(n)) ELSE n

RECURSIVE RStrip(_)
RStrip(n) ==
    IF n # <<>> /\ IsSpace(n[Len(n)]) THEN RStrip(SubSeq(n, 1, Len(n) - 1)) ELSE n

(* str.strip() *)
Strip(n) == RStrip(LStrip(n))

MatPrefix == <<"m", "a", "t", ":">>

(* "mat:" in name *)
ContainsMat(n) ==
    \E i \in 1..Len(n) : i + 3 <= Len(n) /\ SubSeq(n, i, i + 3) = MatPrefix

(* name[4:] *)
AfterPrefix(n) == SubSeq(n, 5, Len(n))

(* Names and materials a caller passes *)
NameArgs == {<<"a">>, <<"A">>}
MaterialArgs == {<<"f">>, <<"F">>}

-----------------------------------------------------------------------------
(* The store: the MOAB core together with Model.used_ids *)

(* The value of the GEOM_SENSE_2 tag on a set that has none; a tag that is
   set is a pair of handles, NoHandle in a slot for no volume *)
NoSenses == <<>>

EmptyCore ==
    [live |-> {},
     cat |-> [h \in Handles |-> NoCat],
     dim |-> [h \in Handles |-> UnsetDim],
     id |-> [h \in Handles |-> defaultId],
     name |-> [h \in Handles |-> NoName],
     contents |-> [h \in Handles |-> {}],
     senses |-> [h \in Handles |-> NoSenses],
     parents |-> [h \in Handles |-> <<>>]]

Store == [mb |-> mb, used |-> used_ids]

(* The outcome of a call: the store it leaves, how it ended, the handle it
   returns (NoHandle when it returns none) *)
R(s, res, h) == [s |-> s, res |-> res, h |-> h]

Min(S) == CHOOSE x \in S : \A y \in S : x <= y
Max(S) == CHOOSE x \in S : \A y \in S : x >= y

RECURSIVE SortedSeq(_)
SortedSeq(S) == IF S = {} THEN <<>> ELSE <<Min(S)>> \o SortedSeq(S \ {Min(S)})

FreeHandles(s) == Handles \ s.mb.live

(* mb.create_meshset(): the lowest free handle, with no tag set *)
CreateMeshset(s) ==
    LET h == Min(FreeHandles(s))
    IN  R([s EXCEPT !.mb.live = @ \cup {h}], "ok", h)

(* mb.delete_entity(handle): the set, its tags and its memberships go *)
DeleteEntity(s, h) ==
    [s EXCEPT !.mb.live = @ \ {h},
              !.mb.cat[h] = NoCat,
              !.mb.dim[h] = UnsetDim,
              !.mb.id[h] = defaultId,
              !.mb.name[h] = NoName,
              !.mb.contents = [g \in Handles |-> IF g = h THEN {} ELSE @[g] \ {h}],
              !.mb.senses[h] = NoSenses,
              !.mb.parents = [g \in Handles |->
                                 IF g = h THEN <<>>
                                 ELSE SelectSeq(@[g], LAMBDA x : x # h)]]

SetCategory(s, h, c) == [s EXCEPT !.mb.cat[h] = c]
SetGeomDimension(s, h, d) == [s EXCEPT !.mb.dim[h] = d]

(* mb.get_entities_by_type_and_tag(root, MBENTITYSET, [category_tag], [c]):
   a Range, so in increasing handle order *)
SetsByCategory(s, c) == SortedSeq({h \in s.mb.live : s.mb.cat[h] = c})

-----------------------------------------------------------------------------
(* GeometrySet._check_category_and_dimension, run by every constructor.
   warn names the tag a warning reports as assigned ("" when none). *)

(* A constructor that takes a set with neither tag for a set of its kind *)
CheckAcceptsUntagged(s, cls, h) ==
    LET geom_dimension == s.mb.dim[h]
        category == s.mb.cat[h]
    IN  IF geom_dimension # UnsetDim /\ geom_dimension # GeomDimension(cls)
        THEN [s |-> s, res |-> "ValueError", warn |-> ""]
        ELSE IF category # NoCat /\ category # Category(cls)
        THEN [s |-> s, res |-> "ValueError", warn |-> ""]
        ELSE [s |-> SetGeomDimension(SetCategory(s, h, Category(cls)), h, GeomDimension(cls)),
              res |-> "ok",
              warn |-> IF category = NoCat THEN "category"
                       ELSE IF geom_dimension = UnsetDim THEN "geom_dimension" ELSE ""]

CheckCategoryAndDimension(s, cls, h) ==
    LET geom_dimension == s.mb.dim[h]
        category == s.mb.cat[h]
        s1 == IF geom_dimension # UnsetDim /\ category = NoCat
              THEN SetCategory(s, h, Category(cls)) ELSE s
        s2 == IF category # NoCat /\ geom_dimension = UnsetDim
              THEN SetGeomDimension(s1, h, GeomDimension(cls)) ELSE s1
        warned == IF geom_dimension # UnsetDim /\ category = NoCat THEN "category"
                  ELSE IF category # NoCat /\ geom_dimension = UnsetDim
                       THEN "geom_dimension" ELSE ""
    IN  IF geom_dimension # UnsetDim /\ geom_dimension # GeomDimension(cls)
        THEN [s |-> s, res |-> "ValueError", warn |-> ""]
        ELSE IF category # NoCat /\ category # Category(cls)
        THEN [s |-> s1, res |-> "ValueError", warn |-> ""]
        ELSE IF geom_dimension = UnsetDim /\ category = NoCat
        THEN [s |-> s2, res |-> "ValueError", warn |-> ""]
        ELSE [s |-> s2, res |-> "ok", warn |-> warned]

-----------------------------------------------------------------------------
(* Wrapper objects: the class, the handle (NoHandle for None) and whether
   the model reference is set *)

Wrapper(cls, h) == [cls |-> cls, handle |-> h, model |-> TRUE]
NoWrapper == [cls |-> "none", handle |-> NoHandle, model |-> FALSE]
(* A delete that clears the handle and keeps the model reference *)
HandleCleared(cls) == [cls |-> cls, handle |-> NoHandle, model |-> TRUE]
Poisoned(cls) == [cls |-> cls, handle |-> NoHandle, model |-> FALSE]

(* An automatic ID counted from the number of IDs in use *)
AutoIdByCount(used) == Cardinality(used) + 1
(* The next automatic ID: max(used_ids, default=0) + 1 *)
AutoId(used) == (IF used = {} THEN 0 ELSE Max(used)) + 1

(* GeometrySet.id (getter) *)
IdGetter(s, w) ==
    IF ~w.model THEN R(s, "AttributeError", NoHandle)
    ELSE IF w.handle \notin s.mb.live THEN R(s, "RuntimeError", NoHandle)
    ELSE R(s, "ok", w.handle)

(* An ID setter without the check for an ID in use *)
IdSetterUnchecked(s, w, arg) ==
    IF ~w.model THEN R(s, "AttributeError", NoHandle)
    ELSE LET used == s.used[w.cls]
             i == IF arg = None THEN (IF used = {} THEN 0 ELSE Max(used)) + 1 ELSE arg[1]
         IN  IF arg = None /\ i > MaxId THEN R(s, "capped", NoHandle)
             ELSE IF w.handle \notin s.mb.live THEN R(s, "RuntimeError", NoHandle)
             ELSE R([s EXCEPT !.used[w.cls] = (@ \ {s.mb.id[w.handle]}) \cup {i},
                              !.mb.id[w.handle] = i],
                    "ok", w.handle)

(* An ID setter that keeps one table of IDs in use for all kinds *)
IdSetterOneTable(s, w, arg) ==
    IF ~w.model THEN R(s, "AttributeError", NoHandle)
    ELSE LET used == UNION {s.used[k] : k \in Kinds}
             i == IF arg = None THEN AutoId(used) ELSE arg[1]
         IN  IF arg = None /\ i > MaxId THEN R(s, "capped", NoHandle)
             ELSE IF arg # None /\ i \in used THEN R(s, "ValueError", NoHandle)
             ELSE IF w.handle \notin s.mb.live THEN R(s, "RuntimeError", NoHandle)
             ELSE R([s EXCEPT !.used[w.cls] = (@ \ {s.mb.id[w.handle]}) \cup {i},
                              !.mb.id[w.handle] = i],
                    "ok", w.handle)

(* GeometrySet.id (setter); ends "capped" where the automatic ID would pass
   the bound of the model *)
IdSetter(s, w, arg) ==
    IF ~w.model THEN R(s, "AttributeError", NoHandle)
    ELSE LET used == s.used[w.cls]
             i == IF arg = None THEN AutoId(used) ELSE arg[1]
         IN  IF arg = None /\ i > MaxId THEN R(s, "capped", NoHandle)
             ELSE IF arg # None /\ i \in used THEN R(s, "ValueError", NoHandle)
             ELSE IF w.handle \notin s.mb.live THEN R(s, "RuntimeError", NoHandle)
             ELSE R([s EXCEPT !.used[w.cls] = (@ \ {s.mb.id[w.handle]}) \cup {i},
                              !.mb.id[w.handle] = i],
                    "ok", w.handle)

(* GeometrySet.delete *)
DeleteSet(s, w) ==
    IF ~w.model THEN R(s, "AttributeError", NoHandle)
    ELSE IF w.handle \notin s.mb.live THEN R(s, "RuntimeError", NoHandle)
    ELSE R(DeleteEntity([s EXCEPT !.used[w.cls] = @ \ {s.mb.id[w.handle]}], w.handle),
           "ok", NoHandle)

(* GeometrySet.create, for Surface and Volume *)
GeometrySetCreate(s, cls, global_id) ==
    LET c == CreateMeshset(s)
        s1 == SetCategory(SetGeomDimension(c.s, c.h, GeomDimension(cls)), c.h, Category(cls))
        k == CheckCategoryAndDimension(s1, cls, c.h)
        a == IdSetter(k.s, Wrapper(cls, c.h), global_id)
    IN  IF k.res # "ok" THEN R(k.s, k.res, NoHandle)
        ELSE R(a.s, a.res, IF a.res = "ok" THEN c.h ELSE NoHandle)

(* Path(filename).suffix of the files a caller names, and the one supported *)
StlSuffix == <<".", "s", "t", "l">>
Suffixes == {StlSuffix, <<".", "S", "T", "L">>, <<".", "s", "t", "e", "p">>, <<>>}

(* The file of create_surface: its suffix and whether load_file can read it *)
File(suffix, readable) == [suffix |-> suffix, readable |-> readable]

(* Model.create_surface, after Surface.create has returned c: the suffix
   test and load_file. The triangles load_file puts into the set are not
   part of the store. *)
LoadInto(c, filename) ==
    IF c.res # "ok" \/ filename = None THEN c
    ELSE IF Lower(filename[1].suffix) # StlSuffix THEN R(c.s, "ValueError", NoHandle)
    ELSE IF ~filename[1].readable THEN R(c.s, "RuntimeError", NoHandle)
    ELSE c

(* Model.create_surface(global_id, filename) *)
CreateSurface(s, global_id, filename) ==
    LoadInto(GeometrySetCreate(s, "Surface", global_id), filename)

(* Model.surfaces / Model.volumes: a wrapper is constructed on every set of
   the category, in handle order; the first failing constructor ends it *)
RECURSIVE WrapAll(_, _, _)
(* A scan that constructs no wrapper *)
WrapNone(s, cls, hs) == R(s, "ok", NoHandle)
WrapAll(s, cls, hs) ==
    IF hs = <<>> THEN R(s, "ok", NoHandle)
    ELSE LET k == CheckCategoryAndDimension(s, cls, Head(hs))
         IN  IF k.res # "ok" THEN R(k.s, k.res, NoHandle)
             ELSE WrapAll(k.s, cls, Tail(hs))

(* Model.surfaces_by_id[i] / Model.volumes_by_id[i]: the dictionary keeps the
   last wrapper of each ID *)
ById(s, cls, i) ==
    LET w == WrapAll(s, cls, SetsByCategory(s, Category(cls)))
        hits == {h \in w.s.mb.live : w.s.mb.cat[h] = Category(cls) /\ w.s.mb.id[h] = i}
    IN  IF w.res # "ok" THEN w
        ELSE IF hits = {} THEN R(w.s, "KeyError", NoHandle)
        ELSE R(w.s, "ok", Max(hits))

-----------------------------------------------------------------------------
(* Surface senses *)

(* mb.add_parent_child(parent, child): the core keeps a parent once *)
(* A core that lists a parent once for each call *)
AddParentChildAgain(s, parent, child) ==
    [s EXCEPT !.mb.parents[child] = Append(@, parent)]
AddParentChild(s, parent, child) ==
    IF \E i \in DOMAIN s.mb.parents[child] : s.mb.parents[child][i] = parent THEN s
    ELSE [s EXCEPT !.mb.parents[child] = Append(@, parent)]

(* mb.get_parent_meshsets(handle) / mb.get_child_meshsets(handle) *)
ParentMeshsets(s, h) == s.mb.parents[h]
ChildMeshsets(s, h) ==
    SortedSeq({c \in s.mb.live :
                  \E i \in DOMAIN s.mb.parents[c] : s.mb.parents[c][i] = h})

(* Surface.senses (getter): pair is the two handles read, a Volume being
   constructed on each that is not NoHandle *)
SensesRead(k, handles) == [s |-> k.s, res |-> k.res, pair |-> handles]

SensesGetter(s, w) ==
    IF ~w.model THEN [s |-> s, res |-> "AttributeError", pair |-> <<NoHandle, NoHandle>>]
    ELSE IF w.handle \notin s.mb.live \/ s.mb.senses[w.handle] = NoSenses
    THEN [s |-> s, res |-> "ok", pair |-> <<NoHandle, NoHandle>>]
    ELSE SensesRead(WrapAll(s, "Volume",
                            SelectSeq(s.mb.senses[w.handle], LAMBDA h : h # NoHandle)),
                    s.mb.senses[w.handle])

(* the loop of the setter over the volumes *)
RECURSIVE AddParents(_, _, _)
AddParents(s, volumes, child) ==
    IF volumes = <<>> THEN s
    ELSE AddParents(IF Head(volumes) # NoHandle
                    THEN AddParentChild(s, Head(volumes), child) ELSE s,
                    Tail(volumes), child)

(* Surface.senses (setter); volumes are given by their handles, NoHandle
   for None *)
(* A setter that takes a list of any length *)
SensesSetterAnyLength(s, w, volumes) ==
    IF ~w.model THEN R(s, "AttributeError", NoHandle)
    ELSE IF w.handle \notin s.mb.live THEN R(s, "RuntimeError", NoHandle)
    ELSE R(AddParents([s EXCEPT !.mb.senses[w.handle] = volumes], volumes, w.handle),
           "ok", w.handle)
SensesSetter(s, w, volumes) ==
    IF Len(volumes) # 2 THEN R(s, "ValueError", NoHandle)
    ELSE IF ~w.model THEN R(s, "AttributeError", NoHandle)
    ELSE IF w.handle \notin s.mb.live THEN R(s, "RuntimeError", NoHandle)
    ELSE R(AddParents([s EXCEPT !.mb.senses[w.handle] = volumes], volumes, w.handle),
           "ok", w.handle)

(* Surface.forward_volume / reverse_volume (setters): g is the read of the
   other slot, slot the one assigned *)
(* A slot setter that writes None to the other slot *)
SlotSetterAlone(g, w, slot, volume) ==
    IF g.res # "ok" THEN R(g.s, g.res, NoHandle)
    ELSE SensesSetter(g.s, w, [<<NoHandle, NoHandle>> EXCEPT ![slot] = volume])
SlotSetter(g, w, slot, volume) ==
    IF g.res # "ok" THEN R(g.s, g.res, NoHandle)
    ELSE SensesSetter(g.s, w, [g.pair EXCEPT ![slot] = volume])

ForwardSetter(s, w, volume) == SlotSetter(SensesGetter(s, w), w, 1, volume)
ReverseSetter(s, w, volume) == SlotSetter(SensesGetter(s, w), w, 2, volume)

-----------------------------------------------------------------------------
(* Groups *)

(* Group.name (getter) on a handle: None when the tag cannot be read *)
NameOf(s, h) == IF h \in s.mb.live THEN s.mb.name[h] ELSE NoName

(* A merge that does not compare the names *)
MergeAnyName(s, self, other) ==
    IF ~self.model \/ NameOf(s, self.handle) = NoName
       \/ ~other.model \/ NameOf(s, other.handle) = NoName
    THEN R(s, "AttributeError", NoHandle)
    ELSE R(DeleteEntity([s EXCEPT !.mb.contents[self.handle] =
                                      @ \cup s.mb.contents[other.handle]],
                        other.handle),
           "ok", self.handle)

(* Group.merge(self, other_group) *)
Merge(s, self, other) ==
    IF ~self.model \/ NameOf(s, self.handle) = NoName
       \/ ~other.model \/ NameOf(s, other.handle) = NoName
    THEN R(s, "AttributeError", NoHandle)
    ELSE IF Lower(Strip(NameOf(s, self.handle))) # Lower(Strip(NameOf(s, other.handle)))
    THEN R(s, "ValueError", NoHandle)
    ELSE LET other_entities == s.mb.contents[other.handle]
             s1 == [s EXCEPT !.mb.contents[self.handle] = @ \cup other_entities]
         IN  R(DeleteEntity(s1, other.handle), "ok", self.handle)

Keys(map) == {map[i][1] : i \in DOMAIN map}
Lookup(map, key) == map[CHOOSE i \in DOMAIN map : map[i][1] = key][2]

(* Model.groups_by_name: the loop over the group handles; map is the
   dictionary built so far, as <<name, handle>> pairs in insertion order *)
RECURSIVE GroupsLoop(_, _, _)
(* A discovery that lists every group handle and merges none *)
GroupsListed(s, hs, map) ==
    [s |-> s, res |-> "ok",
     map |-> map \o [i \in 1..Len(hs) |-> <<NameOf(s, hs[i]), hs[i]>>]]
GroupsLoop(s, hs, map) ==
    IF hs = <<>> THEN [s |-> s, res |-> "ok", map |-> map]
    ELSE LET h == Head(hs)
             k == CheckCategoryAndDimension(s, "Group", h)
             group_name == NameOf(k.s, h)
             m == Merge(k.s, Wrapper("Group", Lookup(map, group_name)), Wrapper("Group", h))
         IN  IF k.res # "ok" THEN [s |-> k.s, res |-> k.res, map |-> map]
             ELSE IF group_name \in Keys(map)
             THEN IF m.res # "ok" THEN [s |-> m.s, res |-> m.res, map |-> map]
                  ELSE GroupsLoop(m.s, Tail(hs), map)
             ELSE GroupsLoop(k.s, Tail(hs), Append(map, <<group_name, h>>))

GroupsByName(s) == GroupsLoop(s, SetsByCategory(s, "Group"), <<>>)

(* Group.name (setter) *)
NameSetter(s, w, val) ==
    IF ~w.model THEN R(s, "AttributeError", NoHandle)
    ELSE LET g == GroupsByName(s)
         IN  IF g.res # "ok" THEN R(g.s, g.res, NoHandle)
             ELSE IF Lower(val) \in Keys(g.map) THEN R(g.s, "ValueError", NoHandle)
             ELSE IF w.handle \notin g.s.mb.live THEN R(g.s, "RuntimeError", NoHandle)
             ELSE R([g.s EXCEPT !.mb.name[w.handle] = val], "ok", w.handle)

(* Group.create: after a new set is made (ends "full" where the model has no
   handle left), tags, name, then ID *)
GroupCreateNew(s, name, group_id) ==
    IF FreeHandles(s) = {} THEN R(s, "full", NoHandle)
    ELSE LET c == CreateMeshset(s)
             s1 == SetGeomDimension(SetCategory(c.s, c.h, Category("Group")),
                                    c.h, GeomDimension("Group"))
             k == CheckCategoryAndDimension(s1, "Group", c.h)
             n == IF name # None THEN NameSetter(k.s, Wrapper("Group", c.h), name[1])
                  ELSE R(k.s, "ok", c.h)
             a == IdSetter(n.s, Wrapper("Group", c.h), group_id)
         IN  IF k.res # "ok" THEN R(k.s, k.res, NoHandle)
             ELSE IF n.res # "ok" THEN R(n.s, n.res, NoHandle)
             ELSE R(a.s, a.res, IF a.res = "ok" THEN c.h ELSE NoHandle)

(* Group.create; ends "existing" when it returns a group that was there *)
GroupCreate(s, name, group_id) ==
    IF name = None THEN GroupCreateNew(s, name, group_id)
    ELSE LET g1 == GroupsByName(s)
             g2 == GroupsByName(g1.s)
         IN  IF g1.res # "ok" THEN R(g1.s, g1.res, NoHandle)
             ELSE IF Lower(name[1]) \in Keys(g1.map)
             THEN IF g2.res # "ok" THEN R(g2.s, g2.res, NoHandle)
                  ELSE IF name[1] \in Keys(g2.map)
                  THEN R(g2.s, "existing", Lookup(g2.map, name[1]))
                  ELSE R(g2.s, "KeyError", NoHandle)
             ELSE GroupCreateNew(g1.s, name, group_id)

(* Group.add_set / Group.remove_set on the handles of live sets *)
AddSet(s, g, h) == [s EXCEPT !.mb.contents[g] = @ \cup {h}]
RemoveSet(s, g, h) == [s EXCEPT !.mb.contents[g] = @ \ {h}]

(* Group.__contains__: the handle is one of the group's volumes or surfaces *)
Contains(s, g, h) ==
    h \in {m \in s.mb.contents[g] : m \in s.mb.live /\ s.mb.cat[m] \in {"Volume", "Surface"}}

(* Volume._material_group over Volume.groups: the first group, in the order
   of Model.groups, that contains the volume and has "mat:" in its name *)
RECURSIVE FirstMaterialGroup(_, _, _)
FirstMaterialGroup(s, map, h) ==
    IF map = <<>> THEN R(s, "ok", NoHandle)
    ELSE LET g == Head(map)[2]
         IN  IF ~Contains(s, g, h) THEN FirstMaterialGroup(s, Tail(map), h)
             ELSE IF Head(map)[1] = NoName THEN R(s, "TypeError", NoHandle)
             ELSE IF ContainsMat(Head(map)[1]) THEN R(s, "ok", g)
             ELSE FirstMaterialGroup(s, Tail(map), h)

MaterialGroup(s, w) ==
    IF ~w.model THEN R(s, "AttributeError", NoHandle)
    ELSE LET g == GroupsByName(s)
         IN  IF g.res # "ok" THEN R(g.s, g.res, NoHandle)
             ELSE FirstMaterialGroup(g.s, g.map, w.handle)

(* Volume.material (setter) *)
(* its three steps: mg is the result of _material_group, c of Group.create *)
MaterialLeave(mg, w) ==
    IF mg.h # NoHandle THEN RemoveSet(mg.s, mg.h, w.handle) ELSE mg.s

MaterialJoin(c, w) ==
    IF c.res \notin {"ok", "existing"} THEN R(c.s, c.res, NoHandle)
    ELSE IF w.handle \notin c.s.mb.live THEN R(c.s, "RuntimeError", NoHandle)
    ELSE R(AddSet(c.s, c.h, w.handle), "ok", c.h)

MaterialMove(mg, w, name) ==
    IF mg.res # "ok" THEN mg
    ELSE MaterialJoin(GroupCreate(MaterialLeave(mg, w), Some(MatPrefix \o name), None), w)

MaterialSetter(s, w, name) == MaterialMove(MaterialGroup(s, w), w, name)

(* Volume.material (getter): name is None or the group's name[4:] *)
MaterialName(mg) ==
    [s |-> mg.s, res |-> mg.res, h |-> mg.h,
     name |-> IF mg.res = "ok" /\ mg.h # NoHandle
              THEN Some(AfterPrefix(NameOf(mg.s, mg.h))) ELSE None]

MaterialGetter(s, w) == MaterialName(MaterialGroup(s, w))

(* Model.volumes_by_material: the loop over Model.volumes; map is the
   dictionary so far, as the set of <<material, volume handle>> pairs.
   The material is read once for the test and once for the key. *)
RECURSIVE ByMaterialLoop(_, _, _)
ByMaterialLoop(s, vs, map) ==
    IF vs = <<>> THEN [s |-> s, res |-> "ok", map |-> map]
    ELSE LET m1 == MaterialGetter(s, Wrapper("Volume", Head(vs)))
             m2 == MaterialGetter(m1.s, Wrapper("Volume", Head(vs)))
         IN  IF m1.res # "ok" THEN [s |-> m1.s, res |-> m1.res, map |-> map]
             ELSE IF m1.name = None THEN ByMaterialLoop(m1.s, Tail(vs), map)
             ELSE IF m2.res # "ok" THEN [s |-> m2.s, res |-> m2.res, map |-> map]
             ELSE ByMaterialLoop(m2.s, Tail(vs), map \cup {<<m2.name[1], Head(vs)>>})

VolumesByMaterial(s) ==
    LET w == WrapAll(s, "Volume", SetsByCategory(s, "Volume"))
    IN  IF w.res # "ok" THEN [s |-> w.s, res |-> w.res, map |-> {}]
        ELSE ByMaterialLoop(w.s, SetsByCategory(w.s, "Volume"), {})

(* Model.volumes_without_material: vols is the set of handles listed *)
RECURSIVE WithoutMaterialLoop(_, _, _)
WithoutMaterialLoop(s, vs, vols) ==
    IF vs = <<>> THEN [s |-> s, res |-> "ok", vols |-> vols]
    ELSE LET m == MaterialGetter(s, Wrapper("Volume", Head(vs)))
         IN  IF m.res # "ok" THEN [s |-> m.s, res |-> m.res, vols |-> vols]
             ELSE WithoutMaterialLoop(m.s, Tail(vs),
                                      IF m.name = None THEN vols \cup {Head(vs)} ELSE vols)

VolumesWithoutMaterial(s) ==
    LET w == WrapAll(s, "Volume", SetsByCategory(s, "Volume"))
    IN  IF w.res # "ok" THEN [s |-> w.s, res |-> w.res, vols |-> {}]
        ELSE WithoutMaterialLoop(w.s, SetsByCategory(w.s, "Volume"), {})

(* Members of an add_groups entry: a GeometrySet object or a bare ID *)
SetMember(h) == [set |-> TRUE, v |-> h]
IdMember(i) == [set |-> FALSE, v |-> i]

(* add_groups, the branch for a bare ID: volumes_by_id first, then
   surfaces_by_id; "NotFound" is the ValueError that names the ID *)
(* A lookup that asks surfaces_by_id first *)
ResolveSurfaceFirst(s, dagset) ==
    LET f == ById(s, "Surface", dagset)
    IN  IF f.res # "KeyError" THEN f
        ELSE LET v == ById(f.s, "Volume", dagset)
             IN  IF v.res # "KeyError" THEN v ELSE R(v.s, "NotFound", NoHandle)
ResolveId(s, dagset) ==
    LET v == ById(s, "Volume", dagset)
    IN  IF v.res # "KeyError" THEN v
        ELSE LET f == ById(v.s, "Surface", dagset)
             IN  IF f.res # "KeyError" THEN f ELSE R(f.s, "NotFound", NoHandle)

AddResolved(r, g) == IF r.res = "ok" THEN AddSet(r.s, g, r.h) ELSE r.s

(* Model.add_groups, the loop over the members of one entry; bad is the ID
   the error message names *)
RECURSIVE AddMembers(_, _, _)
AddMembers(s, g, dagsets) ==
    IF dagsets = <<>> THEN [s |-> s, res |-> "ok", h |-> g, bad |-> None]
    ELSE IF Head(dagsets).set
    THEN AddMembers(AddSet(s, g, Head(dagsets).v), g, Tail(dagsets))
    ELSE IF ResolveId(s, Head(dagsets).v).res = "ok"
    THEN AddMembers(AddResolved(ResolveId(s, Head(dagsets).v), g), g, Tail(dagsets))
    ELSE [s |-> ResolveId(s, Head(dagsets).v).s,
          res |-> ResolveId(s, Head(dagsets).v).res, h |-> g,
          bad |-> IF ResolveId(s, Head(dagsets).v).res = "NotFound"
                  THEN Some(Head(dagsets).v) ELSE None]

AddToCreated(c, dagsets) ==
    IF c.res \notin {"ok", "existing"}
    THEN [s |-> c.s, res |-> c.res, h |-> NoHandle, bad |-> None]
    ELSE AddMembers(c.s, c.h, dagsets)

(* Model.add_groups({(group_name, group_id): dagsets}) *)
AddGroups(s, group_name, group_id, dagsets) ==
    AddToCreated(GroupCreate(s, group_name, group_id), dagsets)

-----------------------------------------------------------------------------
(* The calls a user of the package makes *)

(* h is the handle the call was made on or, for a call that returns a
   wrapper, the handle of the wrapper returned *)
Call(op, cls, h, id, name, res, warn) ==
    [op |-> op, cls |-> cls, h |-> h, id |-> id, name |-> name, res |-> res,
     warn |-> warn]

OptIds == {None} \cup {Some(i) : i \in IdRange}
OptNames == {None} \cup {Some(n) : n \in NameArgs}
MaterialGroupNames == {MatPrefix \o x : x \in MaterialArgs}

Install(s) == mb' = s.mb /\ used_ids' = s.used

(* lastAuto is history: it follows the automatic IDs only in the
   specification that starts it at "none"; elsewhere it stays "off" *)
NoteAuto(cls, id, r) ==
    lastAuto' = IF lastAuto.cls # "off" /\ id = None /\ r.res = "ok"
                THEN [cls |-> cls, id |-> r.s.mb.id[r.h]] ELSE lastAuto

(* Model.create_surface(global_id) / Model.create_volume(global_id) *)
CreateSet(cls, global_id) ==
    /\ FreeHandles(Store) # {}
    /\ Cardinality({h \in mb.live : mb.cat[h] \in {"Surface", "Volume"}}) < MaxSets
    /\ \E r \in {GeometrySetCreate(Store, cls, global_id)} :
           /\ r.res # "capped"
           /\ Install(r.s)
           /\ held' = IF r.res = "ok" THEN Wrapper(cls, r.h) ELSE held
           /\ last' = Call("create", cls, r.h, global_id, None, r.res, "")
           /\ NoteAuto(cls, global_id, r)
    /\ UNCHANGED defaultId

(* Model.create_group(name, group_id) *)
CreateGroup(name, group_id) ==
    /\ \E r \in {GroupCreate(Store, name, group_id)} :
           /\ r.res \notin {"capped", "full"}
           /\ Install(r.s)
           /\ held' = IF r.res \in {"ok", "existing"} THEN Wrapper("Group", r.h) ELSE held
           /\ last' = Call("create_group", "Group", r.h, group_id, name, r.res, "")
           /\ NoteAuto("Group", group_id, r)
    /\ UNCHANGED defaultId

(* held.id = i *)
SetId(i) ==
    /\ held.cls \in Kinds
    /\ \E r \in {IdSetter(Store, held, i)} :
           /\ r.res # "capped"
           /\ Install(r.s)
           /\ last' = Call("set_id", held.cls, held.handle, i, None, r.res, "")
           /\ NoteAuto(held.cls, i, r)
    /\ UNCHANGED <<held, defaultId>>

(* held.id *)
ReadId ==
    /\ held.cls \in Kinds
    /\ last' = Call("id", held.cls, held.handle, None, None, IdGetter(Store, held).res, "")
    /\ UNCHANGED <<mb, used_ids, held, lastAuto, defaultId>>

(* held.name *)
ReadName ==
    /\ held.cls = "Group"
    /\ last' = Call("name", held.cls, held.handle, None, None,
                    IF held.model THEN "ok" ELSE "AttributeError", "")
    /\ UNCHANGED <<mb, used_ids, held, lastAuto, defaultId>>

(* held.delete() *)
Delete ==
    /\ held.cls \in Kinds
    /\ \E r \in {DeleteSet(Store, held)} :
           /\ Install(r.s)
           /\ held' = IF r.res = "ok" THEN Poisoned(held.cls) ELSE held
           /\ last' = Call("delete", held.cls, held.handle, None, None, r.res, "")
    /\ UNCHANGED <<lastAuto, defaultId>>

(* held = model.surfaces_by_id[i] / model.volumes_by_id[i] *)
GetById(cls, i) ==
    /\ \E r \in {ById(Store, cls, i)} :
           /\ Install(r.s)
           /\ held' = IF r.res = "ok" THEN Wrapper(cls, r.h) ELSE held
           /\ last' = Call("by_id", cls, r.h, Some(i), None, r.res, "")
    /\ UNCHANGED <<lastAuto, defaultId>>

(* held = model.groups_by_name[name] *)
GetGroup(name) ==
    /\ \E g \in {GroupsByName(Store)} :
         \E found \in {g.res = "ok" /\ name \in Keys(g.map)} :
           /\ Install(g.s)
           /\ held' = IF found THEN Wrapper("Group", Lookup(g.map, name)) ELSE held
           /\ last' = Call("groups_by_name", "Group",
                           IF found THEN Lookup(g.map, name) ELSE NoHandle,
                           None, Some(name),
                           IF g.res # "ok" THEN g.res
                           ELSE IF found THEN "ok" ELSE "KeyError", "")
    /\ UNCHANGED <<lastAuto, defaultId>>

(* held.name = val *)
SetName(val) ==
    /\ held.cls = "Group"
    /\ \E r \in {NameSetter(Store, held, val)} :
           /\ Install(r.s)
           /\ last' = Call("set_name", "Group", held.handle, None, Some(val), r.res, "")
    /\ UNCHANGED <<held, lastAuto, defaultId>>

(* model.groups_by_name[name].merge(held) *)
MergeInto(name) ==
    /\ held.cls = "Group"
    /\ \E g \in {GroupsByName(Store)} :
         IF ~(g.res = "ok" /\ name \in Keys(g.map))
         THEN /\ Install(g.s)
              /\ held' = held
              /\ last' = Call("merge", "Group", held.handle, None, Some(name),
                              IF g.res # "ok" THEN g.res ELSE "KeyError", "")
         ELSE \E m \in {Merge(g.s, Wrapper("Group", Lookup(g.map, name)), held)} :
              /\ Install(m.s)
              /\ held' = IF m.res = "ok" THEN [held EXCEPT !.handle = m.h] ELSE held
              /\ last' = Call("merge", "Group", held.handle, None, Some(name), m.res, "")
    /\ UNCHANGED <<lastAuto, defaultId>>

(* held.material = name *)
SetMaterial(name) ==
    /\ held.cls = "Volume"
    /\ \E r \in {MaterialSetter(Store, held, name)} :
           /\ r.res \notin {"capped", "full"}
           /\ Install(r.s)
           /\ last' = Call("set_material", "Volume", held.handle, None, Some(name), r.res, "")
    /\ UNCHANGED <<held, lastAuto, defaultId>>

(* held.material: last.name is the value returned *)
ReadMaterial ==
    /\ held.cls = "Volume"
    /\ \E r \in {MaterialGetter(Store, held)} :
           /\ Install(r.s)
           /\ last' = Call("material", "Volume", held.handle, None, r.name, r.res, "")
    /\ UNCHANGED <<held, lastAuto, defaultId>>

(* Model.create_surface(global_id, filename) with a file name; last.name is
   the suffix of the name *)
CreateSurfaceFile(global_id, suffix, readable) ==
    /\ FreeHandles(Store) # {}
    /\ Cardinality({h \in mb.live : mb.cat[h] \in {"Surface", "Volume"}}) < MaxSets
    /\ \E r \in {CreateSurface(Store, global_id, Some(File(suffix, readable)))} :
           /\ r.res # "capped"
           /\ Install(r.s)
           /\ held' = IF r.res = "ok" THEN Wrapper("Surface", r.h) ELSE held
           /\ last' = Call("create_surface", "Surface", r.h, global_id, Some(suffix),
                           r.res, "")
    /\ UNCHANGED <<lastAuto, defaultId>>

(* The volumes a caller passes to the sense setters: None or a live volume *)
VolumeArg(v) == v = NoHandle \/ (v \in mb.live /\ mb.cat[v] = "Volume")
SensesArgs ==
    {<<>>} \cup {<<a>> : a \in 0..MaxHandle} \cup {<<a, b>> : a, b \in 0..MaxHandle}
        \cup {<<a, b, c>> : a, b, c \in 0..MaxHandle}

(* held.senses = volumes *)
SetSenses(volumes) ==
    /\ held.cls = "Surface"
    /\ \A i \in DOMAIN volumes : VolumeArg(volumes[i])
    /\ \E r \in {SensesSetter(Store, held, volumes)} :
           /\ Install(r.s)
           /\ last' = Call("senses", "Surface", held.handle, None, None, r.res, "")
    /\ UNCHANGED <<held, lastAuto, defaultId>>

(* held.forward_volume = volume (slot 1) / held.reverse_volume = volume (slot 2) *)
SetSlot(slot, volume) ==
    /\ held.cls = "Surface"
    /\ VolumeArg(volume)
    /\ \E r \in {IF slot = 1 THEN ForwardSetter(Store, held, volume)
                              ELSE ReverseSetter(Store, held, volume)} :
           /\ Install(r.s)
           /\ last' = Call(IF slot = 1 THEN "forward_volume" ELSE "reverse_volume",
                           "Surface", held.handle, None, None, r.res, "")
    /\ UNCHANGED <<held, lastAuto, defaultId>>

(* The member lists a caller passes: bare IDs and, as an object, the held
   volume or surface *)
MemberArgs == {IdMember(i) : i \in 1..MaxId} \cup {SetMember(h) : h \in Handles}
DagsetArgs == {<<a>> : a \in MemberArgs} \cup {<<a, b>> : a, b \in MemberArgs}
HeldOrId(dagsets) ==
    \A j \in DOMAIN dagsets :
        dagsets[j].set => /\ held.cls \in {"Volume", "Surface"}
                          /\ held.handle \in mb.live
                          /\ dagsets[j].v = held.handle

(* model.add_groups({(group_name, group_id): dagsets}); last.id is the ID the
   not-found error names *)
AddGroupsEntry(group_name, group_id, dagsets) ==
    /\ HeldOrId(dagsets)
    /\ \E r \in {AddGroups(Store, Some(group_name), group_id, dagsets)} :
           /\ r.res \notin {"capped", "full"}
           /\ Install(r.s)
           /\ last' = Call("add_groups", "Group", r.h, r.bad, Some(group_name),
                           IF r.res = "existing" THEN "ok" ELSE r.res, "")
    /\ UNCHANGED <<held, lastAuto, defaultId>>

(* Group(model, h).add_set(held), held a Volume or a Surface *)
AddHeldTo(h) ==
    /\ held.cls \in {"Volume", "Surface"} /\ held.model /\ held.handle \in mb.live
    /\ h \in mb.live /\ mb.cat[h] = "Group"
    /\ \E k \in {CheckCategoryAndDimension(Store, "Group", h)} :
           /\ Install(IF k.res = "ok" THEN AddSet(k.s, h, held.handle) ELSE k.s)
           /\ last' = Call("add_set", "Group", h, None, None, k.res, "")
    /\ UNCHANGED <<held, lastAuto, defaultId>>

(* held.merge(Group(model, h)): held is self, last.h the handle of other *)
MergeWith(h) ==
    /\ held.cls = "Group"
    /\ h \in mb.live /\ mb.cat[h] = "Group"
    /\ \E k \in {CheckCategoryAndDimension(Store, "Group", h)} :
         \E m \in {IF k.res = "ok" THEN Merge(k.s, held, Wrapper("Group", h))
                                   ELSE R(k.s, k.res, NoHandle)} :
           /\ Install(m.s)
           /\ last' = Call("merge_with", "Group", h, None, None, m.res, "")
    /\ UNCHANGED <<held, lastAuto, defaultId>>

(* Group(model, h).merge(held): held is other, last.h the handle of self *)
MergedBy(h) ==
    /\ held.cls = "Group"
    /\ h \in mb.live /\ mb.cat[h] = "Group"
    /\ \E k \in {CheckCategoryAndDimension(Store, "Group", h)} :
         \E m \in {IF k.res = "ok" THEN Merge(k.s, Wrapper("Group", h), held)
                                   ELSE R(k.s, k.res, NoHandle)} :
           /\ Install(m.s)
           /\ held' = IF m.res = "ok" THEN [held EXCEPT !.handle = m.h] ELSE held
           /\ last' = Call("merged_by", "Group", h, None, None, m.res, "")
    /\ UNCHANGED <<lastAuto, defaultId>>

(* A set made on the MOAB core directly and tagged through the raw tag
   setters, as GeometrySet.create does before it constructs the wrapper:
   category c (NoCat: left unset) and geom_dimension d (UnsetDim: left unset) *)
RawCreate(c, d) ==
    /\ FreeHandles(Store) # {}
    /\ Cardinality(mb.live) < MaxSets
    /\ LET m == CreateMeshset(Store)
           s1 == IF d # UnsetDim THEN SetGeomDimension(m.s, m.h, d) ELSE m.s
           s2 == IF c # NoCat THEN SetCategory(s1, m.h, c) ELSE s1
       IN  /\ Install(s2)
           /\ last' = Call("raw_create", c, m.h, Some(d), None, "ok", "")
    /\ UNCHANGED <<held, lastAuto, defaultId>>

(* held = cls(model, h): the constructor of Surface, Volume or Group *)
RawWrap(cls, h) ==
    /\ h \in mb.live
    /\ \E k \in {CheckCategoryAndDimension(Store, cls, h)} :
           /\ Install(k.s)
           /\ held' = IF k.res = "ok" THEN Wrapper(cls, h) ELSE held
           /\ last' = Call("wrap", cls, h, None, None, k.res, k.warn)
    /\ UNCHANGED <<lastAuto, defaultId>>

-----------------------------------------------------------------------------
(* Model(): an empty MOAB core, empty tables of IDs in use *)

InitModel ==
    /\ defaultId \in DefaultIds
    /\ mb = EmptyCore
    /\ used_ids = [k \in Kinds |-> {}]
    /\ held = NoWrapper
    /\ last = Call("init", "none", NoHandle, None, None, "ok", "")

Init == InitModel /\ lastAuto = [cls |-> "off", id |-> 0]

InitAuto == InitModel /\ lastAuto = [cls |-> "none", id |-> 0]

(* Surfaces and volumes: creation, ID assignment, lookup, deletion *)
NextIds ==
    \/ \E cls \in {"Surface", "Volume"}, i \in OptIds : CreateSet(cls, i)
    \/ \E i \in OptIds : SetId(i)
    \/ ReadId
    \/ Delete
    \/ \E cls \in {"Surface", "Volume"}, i \in IdRange : GetById(cls, i)

SpecIds == Init /\ [][NextIds]_vars

(* Groups, their names and the materials of volumes *)
GroupIdArgs == {None, Some(1)}

NextGroups ==
    \/ \E n \in OptNames, i \in GroupIdArgs : CreateGroup(n, i)
    \/ \E n \in NameArgs : SetName(n)
    \/ \E n \in NameArgs : GetGroup(n)
    \/ \E n \in NameArgs : MergeInto(n)
    \/ \E i \in GroupIdArgs : SetId(i)
    \/ ReadId
    \/ ReadName
    \/ Delete

SpecGroups == Init /\ [][NextGroups]_vars

(* Automatic IDs, with their history *)
NextAuto ==
    \/ \E i \in OptIds : CreateSet("Volume", i)
    \/ SetId(None)
    \/ Delete
    \/ \E i \in IdRange : GetById("Volume", i)

SpecAuto == InitAuto /\ [][NextAuto]_vars

(* Wrappers constructed on sets with any category and dimension tags *)
RawCategories == {NoCat} \cup Kinds
RawDimensions == {UnsetDim} \cup {GeomDimension(k) : k \in Kinds}

NextRaw ==
    \/ \E c \in RawCategories, d \in RawDimensions : RawCreate(c, d)
    \/ \E cls \in Kinds, h \in Handles : RawWrap(cls, h)

SpecRaw == Init /\ [][NextRaw]_vars

(* Groups with members: volumes added to groups, groups merged by hand and
   by discovery.  Names that match once trimmed and lowered, and one that
   does not *)
MergeNames == {<<"a">>, <<" ", "A">>, <<"b">>}

NextMerge ==
    \/ \E n \in MergeNames : CreateGroup(Some(n), None)
    \/ CreateSet("Volume", None)
    \/ \E h \in Handles : RawWrap("Group", h)
    \/ \E h \in Handles : AddHeldTo(h)
    \/ \E h \in Handles : MergeWith(h)
    \/ \E h \in Handles : MergedBy(h)
    \/ \E n \in MergeNames : GetGroup(n)

SpecMerge == Init /\ [][NextMerge]_vars

(* Volumes, their material groups, and groups that are not material groups:
   one without a name and one with "mat:" inside its name *)
InfixName == <<"x">> \o MatPrefix \o <<"f">>

NextMaterial ==
    \/ CreateSet("Volume", None)
    \/ \E n \in MaterialArgs : SetMaterial(n)
    \/ ReadMaterial
    \/ \E n \in {None, Some(InfixName)} : CreateGroup(n, None)
    \/ \E h \in Handles : AddHeldTo(h)
    \/ \E i \in 1..MaxId : GetById("Volume", i)

SpecMaterial == Init /\ [][NextMaterial]_vars

(* Surfaces and the volumes on their two sides *)
NextSenses ==
    \/ \E cls \in {"Surface", "Volume"} : CreateSet(cls, None)
    \/ \E i \in 1..MaxId : GetById("Surface", i)
    \/ \E vs \in SensesArgs : SetSenses(vs)
    \/ \E slot \in {1, 2}, v \in 0..MaxHandle : SetSlot(slot, v)

SpecSenses == Init /\ [][NextSenses]_vars

(* Surfaces created from files *)
NextFile ==
    \/ \E i \in OptIds, x \in Suffixes, r \in BOOLEAN : CreateSurfaceFile(i, x, r)
    \/ \E i \in IdRange : GetById("Surface", i)
    \/ Delete

SpecFile == Init /\ [][NextFile]_vars

(* Groups filled through add_groups from volumes and surfaces *)
NextAdd ==
    \/ \E cls \in {"Surface", "Volume"} : CreateSet(cls, None)
    \/ \E n \in {<<"a">>}, ds \in DagsetArgs : AddGroupsEntry(n, None, ds)
    \/ Delete

SpecAdd == Init /\ [][NextAdd]_vars

(* Discovery over sets that were tagged on the core directly, some without
   a dimension, and over groups of one name *)
NextDiscover ==
    \/ \E c \in Kinds, d \in RawDimensions : RawCreate(c, d)
    \/ \E n \in {<<"A">>} : CreateGroup(Some(n), None)
    \/ \E cls \in {"Surface", "Volume"}, i \in DefaultIds : GetById(cls, i)
    \/ \E n \in NameArgs : GetGroup(n)

SpecDiscover == Init /\ [][NextDiscover]_vars

-----------------------------------------------------------------------------
(* Properties *)

LiveOfKind(k) == {h \in mb.live : mb.cat[h] = Category(k)}

ExplicitIdCall(c, op) == c.op = op /\ c.id # None
AutoIdCall(c) == c.op \in {"create", "set_id"} /\ c.id = None /\ c.res = "ok"

(* C1: after any sequence of the package's own operations, failed ones
   included, the set of IDs the Model records as in use for each kind is
   exactly the set of IDs held by the live entity-sets of that kind. *)
UsedIdsMatchLiveIds ==
    \A k \in Kinds : used_ids[k] = {mb.id[h] : h \in LiveOfKind(k)}

(* C2: starting from an empty Model, no two live entity-sets of the same
   kind ever hold the same ID. *)
NoTwoLiveShareId ==
    \A h1, h2 \in mb.live :
        (h1 # h2 /\ mb.cat[h1] = mb.cat[h2]) => mb.id[h1] # mb.id[h2]

(* C3: assigning to an entity an ID that is in the in-use set of its kind,
   the entity's own current ID included, ends with ValueError and changes
   no ID tag and no in-use set. *)
DuplicateIdRejected ==
    [][(ExplicitIdCall(last', "set_id") /\ held.model
            /\ last'.id[1] \in used_ids[held.cls])
        => (last'.res = "ValueError" /\ mb' = mb /\ used_ids' = used_ids)]_vars

(* C3 witness: an entity was assigned the ID it holds, recorded as in use,
   and the call was rejected. *)
OwnIdRejected ==
    /\ last.op = "set_id" /\ last.res = "ValueError"
    /\ held.model /\ held.handle \in mb.live
    /\ last.id = Some(mb.id[held.handle])
    /\ mb.id[held.handle] \in used_ids[held.cls]

(* C4: an assignment of an explicit ID that succeeds leaves the entity
   reading that ID, and the ID the entity held before is then no longer in
   the in-use set of its kind. *)
AssignFreesPreviousId ==
    [][(ExplicitIdCall(last', "set_id") /\ last'.res = "ok")
        => (/\ mb'.id[held.handle] = last'.id[1]
            /\ mb.id[held.handle] \notin used_ids'[held.cls])]_vars

(* C5, as stated: the IDs assigned automatically to one kind are strictly
   increasing, whatever happens between two of them (deletions included). *)
AutoIdsStrictlyIncreasing ==
    [][(AutoIdCall(last') /\ lastAuto.cls = last'.cls)
        => mb'.id[last'.h] > lastAuto.id]_vars

(* C5, amended: an ID assigned automatically is one plus the greatest ID
   in the in-use set of the kind at that time (1 when the set is empty), so
   it exceeds every ID in that set and is none of them; two automatic
   assignments made one right after the other are strictly increasing. *)
AutoIdIsOnePlusMax ==
    [][AutoIdCall(last')
        => LET inUse == used_ids[last'.cls]
               new == mb'.id[last'.h]
           IN  /\ inUse = {} => new = 1
               /\ \A j \in inUse : new > j
               /\ inUse # {} => new - 1 \in inUse
               /\ new \notin inUse
               /\ (AutoIdCall(last) /\ last.cls = last'.cls) => new > lastAuto.id]_vars

(* C5 witness: an automatic ID was assigned that is not the first one, after
   an earlier automatic assignment to the same kind. *)
AutoIdAfterOthers ==
    /\ AutoIdCall(last) /\ last.op = "create"
    /\ mb.id[last.h] > 1
    /\ lastAuto = [cls |-> last.cls, id |-> mb.id[last.h]]
    /\ Cardinality(used_ids[last.cls]) > 1

(* C6: a create_surface / create_volume call given an explicit ID that is
   in use for the kind ends with ValueError and leaves the Model as it was:
   no further entity-set exists and the in-use sets are unchanged. *)
FailedCreateChangesNothing ==
    [][(ExplicitIdCall(last', "create") /\ last'.id[1] \in used_ids[last'.cls])
        => (last'.res = "ValueError" /\ mb'.live = mb.live /\ used_ids' = used_ids)]_vars

(* C7: the constructor of every kind, on a set with any category and
   dimension: error on a dimension set to another kind's, error on a
   category set to another kind's, the missing tag assigned with a warning
   when the other one matches, error when both are missing; both tags are
   the kind's after a success, no tag is written by a failure. *)
ConstructorChecksTags ==
    [][last'.op = "wrap"
        => LET h == last'.h
               cls == last'.cls
               dim == mb.dim[h]
               cat == mb.cat[h]
               failed == last'.res = "ValueError"
           IN  /\ last'.res \in {"ok", "ValueError"}
               /\ (dim # UnsetDim /\ dim # GeomDimension(cls)) => failed
               /\ (cat # NoCat /\ cat # Category(cls)) => failed
               /\ (dim = GeomDimension(cls) /\ cat = NoCat)
                    => (~failed /\ last'.warn = "category" /\ mb'.cat[h] = Category(cls))
               /\ (cat = Category(cls) /\ dim = UnsetDim)
                    => (~failed /\ last'.warn = "geom_dimension"
                        /\ mb'.dim[h] = GeomDimension(cls))
               /\ (dim = UnsetDim /\ cat = NoCat) => failed
               /\ ~failed => (/\ mb'.cat[h] = Category(cls)
                              /\ mb'.dim[h] = GeomDimension(cls)
                              /\ held' = Wrapper(cls, h))
               /\ failed => (mb' = mb /\ last'.warn = "")]_vars

(* C7 witness: a Group was constructed on a set that had only its dimension
   tag, and the category was assigned with a warning. *)
CategoryRepaired ==
    /\ last.op = "wrap" /\ last.cls = "Group" /\ last.res = "ok"
    /\ last.warn = "category"
    /\ mb.cat[last.h] = "Group"

(* C8: delete() removes the entity's ID from the in-use set of its kind and
   the entity-set from the core, so that discovery no longer returns it, and
   clears the wrapper's handle and model; every later call on that wrapper
   (id, name, id assignment, name assignment, delete) ends with
   AttributeError and changes nothing. *)
DeleteFreesAndPoisons ==
    [][/\ (last'.op = "delete" /\ last'.res = "ok")
            => LET h == held.handle
                   after == [mb |-> mb', used |-> used_ids']
               IN  /\ mb.id[h] \notin used_ids'[held.cls]
                   /\ h \notin mb'.live
                   /\ \A i \in DOMAIN SetsByCategory(after, Category(held.cls)) :
                          SetsByCategory(after, Category(held.cls))[i] # h
                   /\ (mb.name[h] \in Keys(GroupsByName(after).map)
                         => \E g \in mb'.live : mb'.name[g] = mb.name[h])
                   /\ held'.handle = NoHandle /\ ~held'.model
       /\ (held.cls \in Kinds /\ ~held.model
             /\ last'.op \in {"id", "name", "set_id", "set_name", "delete"})
            => (last'.res = "AttributeError" /\ mb' = mb /\ used_ids' = used_ids
                /\ held' = held)]_vars

(* C8 witness: a named group was deleted and its name was then read through
   the same wrapper. *)
DeletedGroupUsed ==
    /\ held.cls = "Group" /\ ~held.model /\ held.handle = NoHandle
    /\ last.op = "name" /\ last.res = "AttributeError"
    /\ \E n \in NameArgs : n \notin {mb.name[g] : g \in mb.live}

(* C9: create_group with a name that, compared case-insensitively, is the
   name of a group of the Model returns that group and changes nothing: no
   entity-set is made, no ID and no in-use set changes. *)
CreateExistingReturnsIt ==
    [][(last'.op = "create_group" /\ last'.name # None
            /\ \E g \in LiveOfKind("Group") :
                   mb.name[g] # NoName /\ Lower(mb.name[g]) = Lower(last'.name[1]))
        => (/\ last'.res = "existing"
            /\ mb' = mb /\ used_ids' = used_ids
            /\ held'.handle \in LiveOfKind("Group")
            /\ Lower(mb.name[held'.handle]) = Lower(last'.name[1]))]_vars

(* C10: starting from a Model whose group names are unique, no two groups
   the Model discovers ever have names that are equal when compared
   case-insensitively. *)
GroupNamesUniqueIgnoringCase ==
    \A g1, g2 \in LiveOfKind("Group") :
        (g1 # g2 /\ mb.name[g1] # NoName /\ mb.name[g2] # NoName)
            => Lower(mb.name[g1]) # Lower(mb.name[g2])

(* C11: assigning to Group.name a value that equals, compared
   case-insensitively, the name of a group the Model discovers ends with
   ValueError before anything is written: no name tag, and nothing else in
   the core or the in-use sets, has changed. *)
NameCollisionRejected ==
    [][(last'.op = "set_name" /\ held.model
            /\ \E g \in LiveOfKind("Group") :
                   mb.name[g] # NoName /\ Lower(mb.name[g]) = Lower(last'.name[1]))
        => (last'.res = "ValueError" /\ mb' = mb /\ used_ids' = used_ids)]_vars

MergeCall(c) == c.op \in {"merge_with", "merged_by"}
SelfOf(c, w) == IF c.op = "merge_with" THEN w.handle ELSE c.h
OtherOf(c, w) == IF c.op = "merge_with" THEN c.h ELSE w.handle
BothNamedGroups(a, b) ==
    /\ a \in LiveOfKind("Group") /\ b \in LiveOfKind("Group")
    /\ mb.name[a] # NoName /\ mb.name[b] # NoName
NamesMatch(a, b) == Lower(Strip(mb.name[a])) = Lower(Strip(mb.name[b]))

(* C12: for two Group wrappers self and other whose trimmed, lowered names
   match (two wrappers of one group included), self.merge(other) succeeds;
   afterwards self has exactly the members self and other had, other's set
   is no longer a group of its own, and other is an alias of self: it has
   self's handle and reads self's name and ID. *)
MergeUnitesGroups ==
    [][(MergeCall(last') /\ held.model
            /\ BothNamedGroups(SelfOf(last', held), OtherOf(last', held))
            /\ NamesMatch(SelfOf(last', held), OtherOf(last', held)))
        => LET self == SelfOf(last', held)
               other == OtherOf(last', held)
           IN  /\ last'.res = "ok"
               /\ self \in mb'.live /\ mb'.cat[self] = "Group"
               /\ mb'.contents[self] = mb.contents[self] \cup mb.contents[other]
               /\ other # self => other \notin mb'.live
               /\ mb'.name[self] = mb.name[self] /\ mb'.id[self] = mb.id[self]
               /\ last'.op = "merged_by" => held'.handle = self]_vars

(* C13: Group.merge on two groups whose trimmed, lowered names differ ends
   with ValueError and does no part of the merge: both groups keep their
   handles, names, IDs and members, and nothing else changes. *)
MergeMismatchRejected ==
    [][(MergeCall(last') /\ held.model
            /\ BothNamedGroups(SelfOf(last', held), OtherOf(last', held))
            /\ ~NamesMatch(SelfOf(last', held), OtherOf(last', held)))
        => (/\ last'.res = "ValueError"
            /\ mb' = mb /\ used_ids' = used_ids /\ held' = held)]_vars

(* C13 witness: a merge of two live groups with different names, one of
   them with a member, was rejected. *)
MismatchedMergeTried ==
    /\ last.op = "merge_with" /\ last.res = "ValueError"
    /\ held.model /\ held.handle \in LiveOfKind("Group")
    /\ last.h \in LiveOfKind("Group") /\ last.h # held.handle
    /\ Lower(Strip(mb.name[last.h])) # Lower(Strip(mb.name[held.handle]))
    /\ mb.contents[last.h] # {}

DiscoveryCall(c) == c.op = "groups_by_name" /\ c.res \in {"ok", "KeyError"}
SameName(g) == {x \in LiveOfKind("Group") : mb.name[x] = mb.name[g]}
FirstOf(g) == CHOOSE x \in SameName(g) : \A y \in SameName(g) : x <= y

(* C14: groups_by_name resolves duplicate names: of the discovered groups
   with one name the first stays and each later one is merged into it, so
   that afterwards there is one group per name and it has the members of
   all the groups that had the name; the name asked for maps to that group;
   a second groups_by_name right after gives the same mapping and changes
   nothing. *)
DiscoveryMergesDuplicates ==
    [][DiscoveryCall(last')
        => LET after == [mb |-> mb', used |-> used_ids']
               again == GroupsByName(after)
               groups == {h \in mb'.live : mb'.cat[h] = "Group"}
           IN  /\ \A g \in LiveOfKind("Group") :
                     /\ FirstOf(g) \in groups
                     /\ mb'.name[FirstOf(g)] = mb.name[g]
                     /\ mb'.contents[FirstOf(g)] = UNION {mb.contents[x] : x \in SameName(g)}
                     /\ g # FirstOf(g) => g \notin mb'.live
               /\ groups = {FirstOf(g) : g \in LiveOfKind("Group")}
               /\ \A a, b \in groups : a # b => mb'.name[a] # mb'.name[b]
               /\ last'.res = "ok"
                    <=> \E g \in LiveOfKind("Group") : mb.name[g] = last'.name[1]
               /\ last'.res = "ok"
                    => /\ held'.handle \in groups
                       /\ mb'.name[held'.handle] = last'.name[1]
                       /\ last'.h = held'.handle
               /\ again.res = "ok" /\ again.s = after
               /\ {again.map[i] : i \in DOMAIN again.map} = {<<mb'.name[g], g>> : g \in groups}]_vars

(* C14 witness: groups_by_name has returned a group that has members, and a
   group ID is in use that no group holds any more, as a merge leaves it. *)
DuplicatesWereMerged ==
    /\ last.op = "groups_by_name" /\ last.res = "ok"
    /\ held.handle \in LiveOfKind("Group") /\ mb.contents[held.handle] # {}
    /\ \E i \in used_ids["Group"] : \A g \in LiveOfKind("Group") : mb.id[g] # i

ScanCall(c) == c.op \in {"by_id", "groups_by_name"}
ScanDone(c) == ScanCall(c) /\ c.res \in {"ok", "KeyError"}
Untouched(h) ==
    /\ mb'.cat[h] = mb.cat[h] /\ mb'.dim[h] = mb.dim[h]
    /\ mb'.id[h] = mb.id[h] /\ mb'.name[h] = mb.name[h]
    /\ mb'.contents[h] = mb.contents[h]
CleanKind(k) ==
    /\ \A h \in LiveOfKind(k) : mb.dim[h] = GeomDimension(k)
    /\ k = "Group" => \A a, b \in LiveOfKind(k) : a # b => mb.name[a] # mb.name[b]

(* C15, as stated: reading Model.surfaces, volumes or groups_by_name leaves
   the entity-sets of the core, their tags and their members as they were. *)
DiscoveryLeavesCore ==
    [][ScanCall(last') => mb' = mb]_vars

(* C15, amended: discovery makes no entity-set, changes no in-use set and
   touches no set of another kind; of the scanned kind it changes no
   category, ID or name; it writes the kind's dimension to each scanned set
   that has none, and it merges each later group of a name into the first
   one, which is the only way a set disappears or gains members.  When every
   set of the kind has its dimension and no two groups share a name, the
   core is left as it was. *)
DiscoveryRepairsAndMerges ==
    [][ScanCall(last')
        => LET k == last'.cls
           IN  /\ used_ids' = used_ids
               /\ mb'.live \subseteq mb.live
               /\ \A h \in Handles \ LiveOfKind(k) : Untouched(h) /\ (h \in mb'.live <=> h \in mb.live)
               /\ \A h \in LiveOfKind(k) \cap mb'.live :
                     /\ mb'.cat[h] = mb.cat[h] /\ mb'.id[h] = mb.id[h]
                     /\ mb'.name[h] = mb.name[h]
                     /\ mb'.dim[h] \in {mb.dim[h], GeomDimension(k)}
                     /\ mb'.dim[h] # mb.dim[h] => mb.dim[h] = UnsetDim
                     /\ mb.contents[h] \subseteq mb'.contents[h]
                     /\ ScanDone(last') => mb'.dim[h] = GeomDimension(k)
               /\ \A h \in LiveOfKind(k) \ mb'.live :
                     /\ k = "Group"
                     /\ \E g \in LiveOfKind(k) \cap mb'.live :
                           /\ g < h /\ mb.name[g] = mb.name[h]
                           /\ mb.contents[h] \subseteq mb'.contents[g]
               /\ CleanKind(k) => (mb' = mb /\ ScanDone(last'))]_vars

(* C15 witness: a surface that was tagged on the core, and never given an
   ID through the package, was returned by surfaces_by_id and has its
   dimension. *)
RawSurfaceDiscovered ==
    /\ last.op = "by_id" /\ last.cls = "Surface" /\ last.res = "ok"
    /\ used_ids["Surface"] = {}
    /\ held = Wrapper("Surface", last.h)
    /\ mb.dim[last.h] = SurfaceDim /\ mb.id[last.h] = defaultId

After == [mb |-> mb', used |-> used_ids']

StartsWithMat(n) == n # NoName /\ Len(n) >= 4 /\ SubSeq(n, 1, 4) = MatPrefix

SetMaterialCall == last'.op = "set_material" /\ held.model /\ held.handle \in mb.live

(* C16: after volume.material = X on a live volume, reading volume.material
   returns X, the volume is a member of the group named "mat:X", it is no
   longer a member of the material group it was in before when that is
   another group, and volumes_by_material[X] lists the volume. *)
MaterialRoundTrip ==
    [][SetMaterialCall =>
          LET v == held.handle
              X == last'.name[1]
              old == MaterialGroup(Store, held)
          IN  /\ last'.res = "ok"
              /\ MaterialGetter(After, held).res = "ok"
              /\ MaterialGetter(After, held).name = Some(X)
              /\ \E g \in mb'.live : /\ mb'.cat[g] = "Group"
                                     /\ mb'.name[g] = MatPrefix \o X
                                     /\ v \in mb'.contents[g]
              /\ (/\ old.res = "ok" /\ old.h # NoHandle /\ old.h \in mb'.live
                  /\ mb'.name[old.h] # MatPrefix \o X)
                     => v \notin mb'.contents[old.h]
              /\ VolumesByMaterial(After).res = "ok"
              /\ <<X, v>> \in VolumesByMaterial(After).map]_vars

MaterialRead == last'.op = "material" /\ held.model /\ held.handle \in mb.live

(* The groups that contain the volume and whose name starts with "mat:" *)
MaterialGroupsOf(v) ==
    {g \in LiveOfKind("Group") : StartsWithMat(mb.name[g]) /\ v \in mb.contents[g]}

(* C17: reading volume.material on a live volume returns the name after
   "mat:" of the first group, among those containing the volume, whose name
   starts with "mat:", and returns None when there is no such group, whatever
   other groups (unnamed, or named without that prefix) contain the volume. *)
MaterialIsFirstPrefixedGroup ==
    [][MaterialRead =>
          LET c == MaterialGroupsOf(held.handle)
              first == CHOOSE g \in c : \A x \in c : FirstOf(g) <= FirstOf(x)
          IN  /\ last'.res = "ok"
              /\ last'.name = IF c = {} THEN None
                              ELSE Some(AfterPrefix(mb.name[first]))]_vars

(* The material names under which volumes_by_material lists the volume *)
ListedUnder(by, v) == {p[1] : p \in {q \in by.map : q[2] = v}}

(* C18: at every point each discovered volume is either in exactly one list
   of volumes_by_material, the one keyed by its material, or in
   volumes_without_material, never in both and never in neither; a volume
   just created is in volumes_without_material. *)
VolumesPartitionedByMaterial ==
    LET by == VolumesByMaterial(Store)
        wo == VolumesWithoutMaterial(Store)
    IN  /\ by.res = "ok"
        /\ wo.res = "ok"
        /\ \A v \in LiveOfKind("Volume") :
              \/ /\ ListedUnder(by, v) = {}
                 /\ v \in wo.vols
              \/ /\ MaterialGetter(Store, Wrapper("Volume", v)).name # None
                 /\ ListedUnder(by, v) = {MaterialGetter(Store, Wrapper("Volume", v)).name[1]}
                 /\ v \notin wo.vols
        /\ (last.op = "create" /\ last.cls = "Volume" /\ last.res = "ok")
              => last.h \in wo.vols

(* The set a member of an add_groups entry stands for: the object itself, or
   for a bare ID the volume with that ID, else the surface with that ID, else
   none *)
WithId(k, i) == {h \in LiveOfKind(k) : mb.id[h] = i}
MemberSet(d) ==
    IF d.set THEN d.v
    ELSE IF WithId("Volume", d.v) # {} THEN Max(WithId("Volume", d.v))
    ELSE IF WithId("Surface", d.v) # {} THEN Max(WithId("Surface", d.v))
    ELSE NoHandle

(* The position of the first member that stands for no set, 0 if none *)
FirstMissing(ds) ==
    IF \A j \in DOMAIN ds : MemberSet(ds[j]) # NoHandle THEN 0
    ELSE Min({j \in DOMAIN ds : MemberSet(ds[j]) = NoHandle})

(* C19: in add_groups a bare ID is resolved to the volume with that ID if
   there is one, otherwise to the surface with that ID; if there is neither
   the call fails with the not-found ValueError naming exactly that ID, and
   nothing is rolled back: the group of the entry exists and the members
   before the failing one are in it. *)
AddGroupsResolvesIds ==
    [][\A n \in {<<"a">>}, ds \in DagsetArgs :
          AddGroupsEntry(n, None, ds) =>
             LET g == last'.h
                 k == FirstMissing(ds)
             IN  /\ g \in mb'.live /\ mb'.cat[g] = "Group" /\ mb'.name[g] = n
                 /\ IF k = 0
                    THEN /\ last'.res = "ok"
                         /\ \A j \in DOMAIN ds : MemberSet(ds[j]) \in mb'.contents[g]
                    ELSE /\ last'.res = "NotFound"
                         /\ last'.id = Some(ds[k].v)
                         /\ \A j \in 1..(k - 1) : MemberSet(ds[j]) \in mb'.contents[g]
                 /\ \A h \in mb'.contents[g] :
                       \/ g \in mb.live /\ h \in mb.contents[g]
                       \/ \E j \in DOMAIN ds : MemberSet(ds[j]) = h]_vars

(* add_groups has failed on a missing ID after it had added a member *)
AddGroupsFailedHalfway ==
    /\ last.op = "add_groups" /\ last.res = "NotFound" /\ last.id # None
    /\ last.h \in mb.live
    /\ \E v \in LiveOfKind("Volume"), f \in LiveOfKind("Surface") :
          /\ mb.id[v] = mb.id[f]
          /\ v \in mb.contents[last.h]
          /\ f \notin mb.contents[last.h]

BadSuffixCall ==
    /\ last'.op = "create_surface" /\ last'.name # None
    /\ Lower(last'.name[1]) # StlSuffix

(* C20: create_surface with a file name whose suffix is not .stl (compared
   without regard to case) fails with ValueError before it touches the
   backend: afterwards the Model has no additional surface, the in-use ID
   set of surfaces is unchanged, and the core is as it was. *)
BadSuffixRejectedFirst ==
    [][BadSuffixCall =>
          /\ last'.res = "ValueError"
          /\ {h \in mb'.live : mb'.cat[h] = "Surface"} = LiveOfKind("Surface")
          /\ used_ids'.Surface = used_ids.Surface
          /\ mb' = mb]_vars

(* C21: assigning to Surface.senses a list whose length is not 2 ends with
   ValueError and changes nothing: the sense tags and the parent edges are
   as before. *)
WrongLengthSensesRejected ==
    [][\A vs \in SensesArgs :
          (Len(vs) # 2 /\ SetSenses(vs)) =>
              /\ last'.res = "ValueError"
              /\ mb'.senses = mb.senses
              /\ mb'.parents = mb.parents]_vars

(* A list of the wrong length was assigned to a surface that has senses *)
WrongLengthAfterSenses ==
    /\ last.op = "senses" /\ last.res = "ValueError"
    /\ last.h \in mb.live
    /\ mb.senses[last.h] # NoSenses
    /\ mb.parents[last.h] # <<>>

(* C22: senses reads as an ordered pair: [None, None] on a surface whose
   senses were never set, otherwise the pair last written; assigning
   forward_volume changes slot 0 only and assigning reverse_volume changes
   slot 1 only. *)
SensesReadAsWritten ==
    [][/\ \A vs \in SensesArgs :
             (Len(vs) = 2 /\ SetSenses(vs)) =>
                 /\ last'.res = "ok"
                 /\ SensesGetter(After, held).res = "ok"
                 /\ SensesGetter(After, held).pair = vs
       /\ \A slot \in {1, 2}, v \in 0..MaxHandle :
             SetSlot(slot, v) =>
                 /\ last'.res = "ok"
                 /\ SensesGetter(After, held).res = "ok"
                 /\ SensesGetter(After, held).pair =
                        [SensesGetter(Store, held).pair EXCEPT ![slot] = v]
       /\ \A f \in mb'.live :
             (mb'.cat[f] = "Surface" /\ mb'.senses[f] = NoSenses) =>
                 SensesGetter(After, Wrapper("Surface", f)) =
                     [s |-> After, res |-> "ok", pair |-> <<NoHandle, NoHandle>>]]_vars

(* forward_volume was cleared on a surface that keeps its reverse volume *)
SlotAssignedOtherKept ==
    /\ last.op = "forward_volume" /\ last.res = "ok"
    /\ mb.senses[last.h] # NoSenses
    /\ mb.senses[last.h][1] = NoHandle
    /\ mb.senses[last.h][2] # NoHandle

(* C26: after any sequence of senses / forward_volume / reverse_volume
   assignments every volume in the senses of a surface is a parent of the
   surface (it is in surface.volumes and the surface is in its surfaces),
   and no parent is listed twice. *)
SensesAreParents ==
    \A f \in LiveOfKind("Surface") :
        /\ \A i \in DOMAIN mb.senses[f] :
              mb.senses[f][i] # NoHandle =>
                  /\ \E j \in DOMAIN ParentMeshsets(Store, f) :
                        ParentMeshsets(Store, f)[j] = mb.senses[f][i]
                  /\ \E j \in DOMAIN ChildMeshsets(Store, mb.senses[f][i]) :
                        ChildMeshsets(Store, mb.senses[f][i])[j] = f
        /\ \A i, j \in DOMAIN ParentMeshsets(Store, f) :
              ParentMeshsets(Store, f)[i] = ParentMeshsets(Store, f)[j] => i = j

(* One volume was assigned to both slots of a surface, so its edge was
   asserted twice *)
SameVolumeBothSides ==
    /\ last.op = "senses" /\ last.res = "ok"
    /\ mb.senses[last.h] # NoSenses
    /\ mb.senses[last.h][1] # NoHandle
    /\ mb.senses[last.h][1] = mb.senses[last.h][2]
    /\ Len(mb.parents[last.h]) = 1

(* C27: for a surface whose senses are set through the setters only, the
   parent volumes of the surface are exactly the volumes in its senses, so a
   volume replaced in a slot is no longer a parent. *)
ParentsAreSenses ==
    \A f \in LiveOfKind("Surface") :
        {ParentMeshsets(Store, f)[j] : j \in DOMAIN ParentMeshsets(Store, f)}
            = {mb.senses[f][i] : i \in DOMAIN mb.senses[f]} \ {NoHandle}

-----------------------------------------------------------------------------
(* Equality and hashing of wrappers *)

(* id(model) of the Model instances a caller holds; a deleted wrapper has
   model = None and handle = None *)
ModelIds == {"model1", "model2"}
NoModel == "None"

Entities ==
    [cls : Kinds, model : ModelIds, handle : Handles]
        \cup [cls : Kinds, model : {NoModel}, handle : {NoHandle}]

(* Values that are no wrappers: None, 1, 10.0 *)
NonWrappers == {[cls |-> "NoneType"], [cls |-> "int"], [cls |-> "float"]}

TypeOf(x) == x.cls

(* An equality that does not look at the owning Model *)
EqAnyModel(self, other) ==
    IF TypeOf(other) # TypeOf(self) THEN [res |-> "ok", value |-> FALSE]
    ELSE [res |-> "ok", value |-> self.handle = other.handle]

(* GeometrySet.__eq__: the attributes of other are read only once its type
   is the type of self *)
Eq(self, other) ==
    IF TypeOf(other) # TypeOf(self) THEN [res |-> "ok", value |-> FALSE]
    ELSE [res |-> "ok",
          value |-> self.model = other.model /\ self.handle = other.handle]

(* GeometrySet.__hash__: the hash of the tuple (handle, id(model)) *)
Hash(self) == <<self.handle, self.model>>

(* self == other, hash(self), hash(other) *)
Compare(self, other) ==
    /\ \E r \in {Eq(self, other)} :
           last' = [op |-> "eq", self |-> self, other |-> other, res |-> r.res,
                    value |-> r.value, hself |-> Hash(self),
                    hother |-> IF other \in Entities THEN Some(Hash(other)) ELSE None]
    /\ UNCHANGED <<mb, used_ids, held, lastAuto, defaultId>>

NextEq == \E self \in Entities, other \in Entities \cup NonWrappers : Compare(self, other)

SpecEq == Init /\ [][NextEq]_vars

(* C23: two wrappers compare equal exactly when they have the same kind, the
   same owning Model and the same handle; comparing with a value that is no
   wrapper gives unequal and raises nothing; equal wrappers have equal
   hashes. *)
EqualIffSameKindModelHandle ==
    last.op = "eq" =>
        /\ last.res = "ok"
        /\ last.value <=>
               /\ last.other \in Entities
               /\ last.other.cls = last.self.cls
               /\ last.other.model = last.self.model
               /\ last.other.handle = last.self.handle
        /\ last.value => last.hother = Some(last.hself)

(* The same handle wrapped by two Models, same kind: unequal *)
SameHandleTwoModels ==
    /\ last.op = "eq"
    /\ last.other \in Entities
    /\ last.other.cls = last.self.cls
    /\ last.other.handle = last.self.handle
    /\ last.self.model = "model1" /\ last.other.model = "model2"
    /\ ~last.value

-----------------------------------------------------------------------------
(* Triangle connectivity and coordinates *)

MaxTris == 2

(* Vertex handles, and the xyz triples a vertex can sit at *)
Vertices == Handles
Points == {<<0, 0, 1>>, <<0, 1, 0>>, <<1, 0, 0>>}

(* mb.get_connectivity(triangle_handles).reshape(-1, 3): one row of three
   vertex handles for each triangle, here listed from its lowest handle in
   either orientation *)
ConnRows == {r \in [1..3 -> Vertices] : r[1] < r[2] /\ r[1] < r[3] /\ r[2] # r[3]}
TriangleConns == UNION {[1..n -> ConnRows] : n \in 1..MaxTris}

(* conn.flatten() *)
Flatten(conn) == [i \in 1..(3 * Len(conn)) |-> conn[((i - 1) \div 3) + 1][((i - 1) % 3) + 1]]

(* x.reshape(-1, 3) of a flat index array *)
Reshape3(flat) ==
    [i \in 1..(Len(flat) \div 3) |-> <<flat[3 * i - 2], flat[3 * i - 1], flat[3 * i]>>]

(* mb.get_coords(handles).reshape(-1, 3): one xyz row for each handle *)
GetCoords(vcoords, handles) == [i \in 1..Len(handles) |-> vcoords[handles[i]]]

(* Rows in numpy's order for np.unique(axis=0): lexicographic *)
RowLess(p, q) ==
    \/ p[1] < q[1]
    \/ p[1] = q[1] /\ p[2] < q[2]
    \/ p[1] = q[1] /\ p[2] = q[2] /\ p[3] < q[3]

RECURSIVE SortedRows(_)
SortedRows(S) ==
    IF S = {} THEN <<>>
    ELSE LET m == CHOOSE p \in S : \A q \in S \ {p} : RowLess(p, q)
         IN  <<m>> \o SortedRows(S \ {m})

(* An inverse that numbers the rows in the order they are first seen *)
InverseFirstSeen(rows, uniq) ==
    [i \in 1..Len(rows) |->
        Cardinality({rows[j] : j \in 1..i}) - 1]

(* idx_inverse of np.unique: for each row its 0-based place in the unique rows *)
Inverse(rows, uniq) ==
    [i \in 1..Len(rows) |-> (CHOOSE j \in 1..Len(uniq) : uniq[j] = rows[i]) - 1]

(* np.unique(rows, axis=0, return_inverse=True) *)
Unique(rows) ==
    [coords |-> SortedRows({rows[i] : i \in 1..Len(rows)}),
     inverse |-> Inverse(rows, SortedRows({rows[i] : i \in 1..Len(rows)}))]

(* np.arange(n) *)
Arange(n) == [i \in 1..n |-> i - 1]

(* GeometrySet.get_triangle_conn_and_coords(compress) *)
GetTriangleConnAndCoords(vcoords, triangle_conn, compress) ==
    IF compress
    THEN [conn |-> Reshape3(Unique(GetCoords(vcoords, Flatten(triangle_conn))).inverse),
          coords |-> Unique(GetCoords(vcoords, Flatten(triangle_conn))).coords]
    ELSE [conn |-> Reshape3(Arange(Len(GetCoords(vcoords, Flatten(triangle_conn))))),
          coords |-> GetCoords(vcoords, Flatten(triangle_conn))]

(* An entity with its triangles: where the vertices sit, which vertices each
   triangle joins *)
InitTriangles ==
    /\ defaultId \in DefaultIds
    /\ mb = EmptyCore
    /\ used_ids = [k \in Kinds |-> {}]
    /\ held = NoWrapper
    /\ lastAuto = [cls |-> "off", id |-> 0]
    /\ last \in [op : {"triangles"}, vcoords : [Vertices -> Points],
                 triangle_conn : TriangleConns, plain : {None}, compressed : {None}]

(* entity.get_triangle_conn_and_coords(compress) *)
ConnAndCoords(compress) ==
    /\ last.op = "triangles"
    /\ IF compress THEN last.compressed = None ELSE last.plain = None
    /\ \E r \in {GetTriangleConnAndCoords(last.vcoords, last.triangle_conn, compress)} :
           last' = IF compress THEN [last EXCEPT !.compressed = Some(r)]
                   ELSE [last EXCEPT !.plain = Some(r)]
    /\ UNCHANGED <<mb, used_ids, held, lastAuto, defaultId>>

NextTriangles == \E compress \in BOOLEAN : ConnAndCoords(compress)

SpecTriangles == InitTriangles /\ [][NextTriangles]_vars

(* C24: the plain and the compressed result give, for every triangle and
   every vertex position, the same xyz triple when each connectivity is used
   to index its own coordinate array; the plain connectivity is 0..3N-1 in
   rows of three; the compressed coordinate array has no two equal rows. *)
CompressedSameTriples ==
    (last.op = "triangles" /\ last.plain # None /\ last.compressed # None) =>
        LET p == last.plain[1]
            c == last.compressed[1]
            N == Len(last.triangle_conn)
        IN  /\ Len(p.conn) = N /\ Len(c.conn) = N
            /\ \A i \in 1..N, k \in 1..3 :
                   /\ p.conn[i][k] = 3 * (i - 1) + (k - 1)
                   /\ p.coords[p.conn[i][k] + 1] = c.coords[c.conn[i][k] + 1]
                   /\ p.coords[p.conn[i][k] + 1] = last.vcoords[last.triangle_conn[i][k]]
            /\ \A a, b \in 1..Len(c.coords) : c.coords[a] = c.coords[b] => a = b

(* Two triangles with a shared vertex: fewer compressed rows than plain ones,
   stored in an order other than the order they are first seen *)
CompressedIsShorter ==
    /\ last.op = "triangles" /\ last.plain # None /\ last.compressed # None
    /\ Len(last.triangle_conn) = MaxTris
    /\ Len(last.compressed[1].coords) < Len(last.plain[1].coords)
    /\ last.compressed[1].coords[1] # last.plain[1].coords[1]

-----------------------------------------------------------------------------
(* Triangle sets of a group *)

(* Group._get_geom_ent_sets(entity_type): the sets in the group whose
   CATEGORY tag is the string entity_type *)
GetGeomEntSets(s, g, entity_type) ==
    {m \in s.mb.contents[g] : m \in s.mb.live /\ s.mb.cat[m] = entity_type}

(* Volume._get_triangle_sets: the handles of the volume's child surfaces *)
VolumeTriangleSets(s, v) == {ChildMeshsets(s, v)[i] : i \in DOMAIN ChildMeshsets(s, v)}

(* Group._get_triangle_sets: the category asked for is 'Surfaces' *)
GroupTriangleSets(s, g) ==
    GetGeomEntSets(s, g, "Surfaces")
        \cup UNION {VolumeTriangleSets(s, v) : v \in GetGeomEntSets(s, g, Category("Volume"))}

(* Group(model, h)._get_triangle_sets(), the sets triangle_handles reads *)
ReadTriangleSets(h) ==
    /\ h \in mb.live /\ mb.cat[h] = "Group"
    /\ last' = [op |-> "triangle_sets", cls |-> "Group", h |-> h, res |-> "ok",
                sets |-> GroupTriangleSets(Store, h)]
    /\ UNCHANGED <<mb, used_ids, held, lastAuto, defaultId>>

(* A group filled with surfaces and volumes, the surfaces bounding volumes *)
NextTriangleSets ==
    \/ \E cls \in {"Surface", "Volume"} : CreateSet(cls, None)
    \/ CreateGroup(Some(<<"a">>), None)
    \/ \E cls \in {"Surface", "Volume"}, i \in 1..MaxId : GetById(cls, i)
    \/ \E v \in Handles : SetSlot(1, v)
    \/ \E h \in Handles : AddHeldTo(h)
    \/ \E h \in Handles : ReadTriangleSets(h)

SpecTriangleSets == Init /\ [][NextTriangleSets]_vars

(* C25: the triangle sets of a Group are the Surfaces it contains directly
   together with the child Surfaces of every Volume it contains, each once. *)
GroupTriangleSetsComplete ==
    last.op = "triangle_sets" =>
        last.sets =
            {m \in mb.contents[last.h] : m \in mb.live /\ mb.cat[m] = "Surface"}
                \cup {c \in mb.live :
                        \E v \in mb.contents[last.h] :
                            /\ v \in mb.live /\ mb.cat[v] = "Volume"
                            /\ \E i \in DOMAIN mb.parents[c] : mb.parents[c][i] = v}

-----------------------------------------------------------------------------
(* Volumes whose materials are only ever assigned through Volume.material *)
NextAssign ==
    \/ CreateSet("Volume", None)
    \/ \E n \in MaterialArgs : SetMaterial(n)
    \/ ReadMaterial
    \/ \E i \in 1..MaxId : GetById("Volume", i)

SpecAssign == Init /\ [][NextAssign]_vars

(* C28: under Volume.material assignments alone every Volume is in at most
   one group whose name begins with "mat:", and a Volume that has been
   assigned a material (it is in one such group, or the assignment has just
   returned) is in exactly one after any further assignment. *)
OneMaterialGroupEach ==
    /\ [](\A v \in LiveOfKind("Volume") :
             Cardinality({g \in LiveOfKind("Group") :
                            StartsWithMat(mb.name[g]) /\ v \in mb.contents[g]}) <= 1)
    /\ [][SetMaterialCall =>
             LET was == {g \in LiveOfKind("Group") :
                           StartsWithMat(mb.name[g]) /\ held.handle \in mb.contents[g]}
                 now == {g \in mb'.live :
                           /\ mb'.cat[g] = "Group"
                           /\ StartsWithMat(mb'.name[g])
                           /\ held.handle \in mb'.contents[g]}
             IN  (was # {} \/ last'.res = "ok") => Cardinality(now) = 1]_vars

-----------------------------------------------------------------------------
(* IDs of the three kinds side by side *)
PositiveIds == {None} \cup {Some(i) : i \in 1..MaxId}

NextKinds ==
    \/ \E cls \in {"Surface", "Volume"}, i \in PositiveIds : CreateSet(cls, i)
    \/ \E i \in PositiveIds : CreateGroup(None, i)
    \/ \E i \in PositiveIds : SetId(i)
    \/ Delete

SpecKinds == Init /\ [][NextKinds]_vars

(* C29: a call that assigns or frees an ID of one kind leaves the sets of IDs
   in use of the other two kinds as they were, and an explicit ID is refused
   as in use only when an entity of the same kind is recorded with it. *)
OtherKindsUntouched ==
    [][last'.op \in {"create", "create_group", "set_id", "delete"} =>
          /\ \A k \in Kinds \ {last'.cls} : used_ids'[k] = used_ids[k]
          /\ (last'.op # "delete" /\ last'.id # None /\ last'.res = "ValueError")
                 => last'.id[1] \in used_ids[last'.cls]]_vars

(* One integer held by a Surface, a Volume and a Group at the same time *)
SameIdThreeKinds ==
    /\ last.op \in {"create", "create_group", "set_id"} /\ last.res = "ok"
    /\ \E i \in 1..MaxId :
           /\ last.id = Some(i)
           /\ \A k \in Kinds :
                  /\ i \in used_ids[k]
                  /\ \E h \in mb.live : mb.cat[h] = Category(k) /\ mb.id[h] = i

-----------------------------------------------------------------------------
(* Discovery: groups_by_name (and with it groups, Volume.groups) and
   Volume.material of every live volume return a result *)
DiscoveryCompletes(s) ==
    /\ GroupsByName(s).res = "ok"
    /\ \A v \in s.mb.live :
           s.mb.cat[v] = Category("Volume") =>
               MaterialGetter(s, Wrapper("Volume", v)).res = "ok"

(* C30: a create_group call that succeeds on a Model whose discovery
   completes leaves a Model whose discovery completes, also when the call
   gives no name and an unnamed group is already there. *)
DiscoveryAfterCreate ==
    [][(/\ last'.op = "create_group"
        /\ last'.res \in {"ok", "existing"}
        /\ DiscoveryCompletes(Store))
           => DiscoveryCompletes(After)]_vars

====
